---------------------------- MODULE Spec2Model ----------------------------
(***************************************************************************)
(* A model of rlox, a tree-walking interpreter for a Lox subset:           *)
(* scanner (src/src/scanner.rs), parser (src/src/parser.rs), environment   *)
(* (src/src/environment.rs) and evaluator (src/src/interpreter.rs).        *)
(*                                                                         *)
(* Conventions.  A source text is a sequence of one-character strings.     *)
(* Indices keep the code's 0-based values; At(s, i) reads s[i].  Values    *)
(* of Rust enums are tuples whose first element is the variant's name, so  *)
(* that values of different variants can be compared.  A Number is the     *)
(* rational <<"Number", num, den>> in lowest terms with den > 0; the       *)
(* programs of this model stay within numbers an f64 holds exactly.        *)
(***************************************************************************)
EXTENDS Integers, Sequences, FiniteSets, TLC

VARIABLES
    pc,           \* where the driver is: see the actions below
    input,        \* the lines stdin still holds (run_prompt)
    scanner,      \* the Scanner struct
    parser,       \* the Parser struct, with the ParseErrors it has raised
    statements,   \* the Vec<Stmt> parse() builds, then the program interpreted
    envs,         \* the heap of Environment values, addressed by index (an Rc)
    environment,  \* Interpreter.environment: an index into envs
    stack,        \* the live calls of interpret / execute_block, innermost last
    stdout,       \* the lines println! wrote
    stderr,       \* the lines eprintln! wrote
    result        \* the Result the last returning call produced

vars == <<pc, input, scanner, parser, statements, envs, environment, stack,
          stdout, stderr, result>>

(***************************************************************************)
(* Bounds of the model.                                                    *)
(***************************************************************************)
MaxSrcLen == 4      \* longest source text the scanner specification draws
MaxTokens == 4      \* most tokens before EOF the parser specification draws
MaxStmts  == 4      \* most statements (nested ones counted) of a drawn program
MaxLines  == 2      \* most lines the prompt specification reads
MaxCommentLen == 6  \* longest source text the comment specification draws

At(s, i) == s[i + 1]

Last(s) == s[Len(s)]

(***************************************************************************)
(* token.rs                                                                *)
(***************************************************************************)
None == <<"None">>
Some(x) == <<"Some", x>>

LitString(s) == <<"String", s>>
LitBoolean(b) == <<"Boolean", b>>
LitNil == <<"Nil">>

RECURSIVE Gcd(_, _)
Gcd(a, b) == IF b = 0 THEN a ELSE Gcd(b, a % b)

Abs(x) == IF x < 0 THEN -x ELSE x

\* Literal::Number(f64): the rational n/d, normalised so that equal numbers
\* are equal values (f64 equality; 0.0 == -0.0).
LitNumber(n, d) ==
    LET s == IF d < 0 THEN -1 ELSE 1
        g == Gcd(Abs(n), Abs(d))
    IN  <<"Number", (s * n) \div g, (s * d) \div g>>

Token(typ, lexeme, literal, line) ==
    [typ |-> typ, lexeme |-> lexeme, literal |-> literal, line |-> line]

\* impl Display for Literal; a Number that is an integer prints without a
\* decimal point.
RECURSIVE NatDigits(_)
NatDigits(n) ==
    LET d == <<"0", "1", "2", "3", "4", "5", "6", "7", "8", "9">>
    IN  IF n < 10 THEN <<d[n + 1]>> ELSE Append(NatDigits(n \div 10), d[(n % 10) + 1])

RECURSIVE FracDigits(_, _)
FracDigits(r, d) ==
    IF r = 0 THEN <<>>
    ELSE NatDigits((r * 10) \div d) \o FracDigits((r * 10) % d, d)

LiteralDisplay(lit) ==
    CASE lit[1] = "String" -> lit[2]
      [] lit[1] = "Number" ->
            (IF lit[2] < 0 THEN <<"-">> ELSE <<>>)
            \o NatDigits(Abs(lit[2]) \div lit[3])
            \o (IF Abs(lit[2]) % lit[3] = 0 THEN <<>>
                ELSE <<".">> \o FracDigits(Abs(lit[2]) % lit[3], lit[3]))
      [] lit[1] = "Boolean" ->
            IF lit[2] THEN <<"t", "r", "u", "e">> ELSE <<"f", "a", "l", "s", "e">>
      [] lit[1] = "Nil" -> <<"n", "i", "l">>

(***************************************************************************)
(* scanner.rs                                                              *)
(***************************************************************************)
NoChar == ""      \* Option<char>::None

Digits == {"0", "1", "2", "3", "4", "5", "6", "7", "8", "9"}

Alpha ==
    {"a", "b", "c", "d", "e", "f", "g", "h", "i", "j", "k", "l", "m",
     "n", "o", "p", "q", "r", "s", "t", "u", "v", "w", "x", "y", "z",
     "A", "B", "C", "D", "E", "F", "G", "H", "I", "J", "K", "L", "M",
     "N", "O", "P", "Q", "R", "S", "T", "U", "V", "W", "X", "Y", "Z", "_"}

DigitVal(c) ==
    CASE c = "0" -> 0 [] c = "1" -> 1 [] c = "2" -> 2 [] c = "3" -> 3
      [] c = "4" -> 4 [] c = "5" -> 5 [] c = "6" -> 6 [] c = "7" -> 7
      [] c = "8" -> 8 [] c = "9" -> 9

ReservedWords(text) ==
    CASE text = <<"a", "n", "d">> -> "And"
      [] text = <<"c", "l", "a", "s", "s">> -> "Class"
      [] text = <<"e", "l", "s", "e">> -> "Else"
      [] text = <<"f", "a", "l", "s", "e">> -> "False"
      [] text = <<"f", "o", "r">> -> "For"
      [] text = <<"f", "u", "n">> -> "Fun"
      [] text = <<"i", "f">> -> "If"
      [] text = <<"n", "i", "l">> -> "Nil"
      [] text = <<"o", "r">> -> "Or"
      [] text = <<"p", "r", "i", "n", "t">> -> "Print"
      [] text = <<"r", "e", "t", "u", "r", "n">> -> "Return"
      [] text = <<"s", "u", "p", "e", "r">> -> "Super"
      [] text = <<"t", "h", "i", "s">> -> "This"
      [] text = <<"t", "r", "u", "e">> -> "True"
      [] text = <<"v", "a", "r">> -> "Var"
      [] text = <<"w", "h", "i", "l", "e">> -> "While"
      [] OTHER -> "Identifier"

ScannerNew(source) ==
    [source |-> source, tokens |-> <<>>, start |-> 0, current |-> 0, line |-> 1]

ScannerError(line, description) == <<"ScannerError", line, description>>

\* The outcome of a scanner method: the scanner after it, and its error.
ScOk(sc) == [sc |-> sc, err |-> None]
ScErr(sc, e) == [sc |-> sc, err |-> Some(e)]

ScIsAtEnd(sc) == sc.current >= Len(sc.source)

ScPeek(sc) == IF ScIsAtEnd(sc) THEN NoChar ELSE At(sc.source, sc.current)

ScPeekNext(sc) ==
    IF sc.current + 1 >= Len(sc.source) THEN NoChar ELSE At(sc.source, sc.current + 1)

\* advance(): the scanner after it; the character it returns is ScPeek before.
ScAdvance(sc) == [sc EXCEPT !.current = @ + 1]

\* matches(expected): whether it consumes; the scanner after it is
\* ScAdvance when it does.
ScMatches(sc, expected) == ~ScIsAtEnd(sc) /\ At(sc.source, sc.current) = expected

value_for(sc, from, to) == SubSeq(sc.source, from + 1, to)

add_token_literal(sc, typ, literal) ==
    [sc EXCEPT !.tokens =
        Append(@, Token(typ, value_for(sc, sc.start, sc.current), literal, sc.line))]

add_token(sc, typ) == add_token_literal(sc, typ, None)

\* advance() in a loop that counts lines: `if self.advance() == '\n'`.
ScAdvanceLine(sc) ==
    [sc EXCEPT !.current = @ + 1,
               !.line = IF At(sc.source, sc.current) = "\n" THEN @ + 1 ELSE @]

RECURSIVE ScStringLoop(_)
ScStringLoop(sc) ==
    IF ScPeek(sc) # "\"" /\ ~ScIsAtEnd(sc) THEN ScStringLoop(ScAdvanceLine(sc)) ELSE sc

ScString(sc0) ==
    LET sc == ScStringLoop(sc0)
    IN  IF ScIsAtEnd(sc)
        THEN ScErr(sc, ScannerError(sc.line, "Unterminated string."))
        ELSE LET s1 == ScAdvance(sc)
                 value == value_for(s1, s1.start + 1, s1.current - 1)
             IN  ScOk(add_token_literal(s1, "String", Some(LitString(value))))

RECURSIVE ScDigitsLoop(_)
ScDigitsLoop(sc) ==
    IF ScPeek(sc) \in Digits THEN ScDigitsLoop(ScAdvance(sc)) ELSE sc

RECURSIVE DigitsValue(_)
DigitsValue(text) ==
    IF text = <<>> THEN 0
    ELSE 10 * DigitsValue(SubSeq(text, 1, Len(text) - 1)) + DigitVal(Last(text))

RECURSIVE Pow10(_)
Pow10(k) == IF k = 0 THEN 1 ELSE 10 * Pow10(k - 1)

\* str::parse::<f64> on a lexeme of the form digits or digits.digits, on
\* which it cannot fail.
ParseF64(text) ==
    LET dots == {i \in 1..Len(text) : text[i] = "."}
    IN  IF dots = {} THEN LitNumber(DigitsValue(text), 1)
        ELSE LET i == CHOOSE j \in dots : TRUE
                 whole == SubSeq(text, 1, i - 1)
                 frac == SubSeq(text, i + 1, Len(text))
             IN  LitNumber(DigitsValue(whole) * Pow10(Len(frac)) + DigitsValue(frac),
                           Pow10(Len(frac)))

ScNumber(sc0) ==
    LET s1 == ScDigitsLoop(sc0)
        s2 == IF ScPeek(s1) = "." /\ ScPeekNext(s1) \in Digits
              THEN ScDigitsLoop(ScAdvance(s1))
              ELSE s1
        value == value_for(s2, s2.start, s2.current)
    IN  ScOk(add_token_literal(s2, "Number", Some(ParseF64(value))))

RECURSIVE ScIdentLoop(_)
ScIdentLoop(sc) ==
    IF ScPeek(sc) \in Alpha \cup Digits THEN ScIdentLoop(ScAdvance(sc)) ELSE sc

ScIdentifier(sc0) ==
    LET sc == ScIdentLoop(sc0)
        text == value_for(sc, sc.start, sc.current)
        typ == ReservedWords(text)
    IN  CASE typ = "True" -> add_token_literal(sc, typ, Some(LitBoolean(TRUE)))
          [] typ = "False" -> add_token_literal(sc, typ, Some(LitBoolean(FALSE)))
          [] typ = "Nil" -> add_token_literal(sc, typ, Some(LitNil))
          [] OTHER -> add_token(sc, typ)

RECURSIVE ScCommentSkip(_)
ScCommentSkip(sc) ==
    IF ScPeek(sc) # "*" /\ ~ScIsAtEnd(sc) THEN ScCommentSkip(ScAdvanceLine(sc)) ELSE sc

RECURSIVE ScMultilineComment(_)

\* A multiline_comment that, after a '*' not followed by '/', skips the
\* next character as well.
ScMultilineCommentSkips(sc0) ==
    LET sc == ScCommentSkip(sc0)
    IN  IF ScIsAtEnd(sc)
        THEN ScErr(sc, ScannerError(sc.line, "Unterminated comment."))
        ELSE LET s1 == ScAdvance(sc)
             IN  IF ScMatches(s1, "/") THEN ScOk(ScAdvance(s1))
                 ELSE IF ScIsAtEnd(s1) THEN ScMultilineComment(s1)
                 ELSE ScMultilineComment(ScAdvance(s1))

ScMultilineComment(sc0) ==
    LET sc == ScCommentSkip(sc0)
    IN  IF ScIsAtEnd(sc)
        THEN ScErr(sc, ScannerError(sc.line, "Unterminated comment."))
        ELSE LET s1 == ScAdvance(sc)      \* consume '*'
             IN  IF ScMatches(s1, "/") THEN ScOk(ScAdvance(s1))
                 ELSE ScMultilineComment(s1)

RECURSIVE ScLineComment(_)
ScLineComment(sc) ==
    IF ScPeek(sc) # "\n" /\ ~ScIsAtEnd(sc) THEN ScLineComment(ScAdvance(sc)) ELSE sc

\* `let typ = if self.matches('=') { two } else { one }; self.add_token(typ)`
ScOneOrTwo(sc, one, two) ==
    IF ScMatches(sc, "=") THEN add_token(ScAdvance(sc), two) ELSE add_token(sc, one)

SingleCharToken(c) ==
    CASE c = "(" -> "LeftParen" [] c = ")" -> "RightParen"
      [] c = "{" -> "LeftBrace" [] c = "}" -> "RightBrace"
      [] c = "," -> "Comma" [] c = "." -> "Dot"
      [] c = "-" -> "Minus" [] c = "+" -> "Plus"
      [] c = ";" -> "Semicolon" [] c = "*" -> "Star"

scan_token(sc0) ==
    LET c == At(sc0.source, sc0.current)
        sc == ScAdvance(sc0)
    IN  CASE c \in {"(", ")", "{", "}", ",", ".", "-", "+", ";", "*"} ->
                ScOk(add_token(sc, SingleCharToken(c)))
          [] c = "!" -> ScOk(ScOneOrTwo(sc, "Bang", "BangEqual"))
          [] c = "=" -> ScOk(ScOneOrTwo(sc, "Equal", "EqualEqual"))
          [] c = "<" -> ScOk(ScOneOrTwo(sc, "Less", "LessEqual"))
          [] c = ">" -> ScOk(ScOneOrTwo(sc, "Greater", "GreaterEqual"))
          [] c = "/" ->
                IF ScMatches(sc, "/") THEN ScOk(ScLineComment(ScAdvance(sc)))
                ELSE IF ScMatches(sc, "*") THEN ScMultilineComment(ScAdvance(sc))
                ELSE ScOk(add_token(sc, "Slash"))
          [] c \in {" ", "\r", "\t"} -> ScOk(sc)
          [] c = "\n" -> ScOk([sc EXCEPT !.line = @ + 1])
          [] c = "\"" -> ScString(sc)
          [] c \in Digits -> ScNumber(sc)
          [] c \in Alpha -> ScOk(ScIdentifier(sc))
          [] OTHER -> ScErr(sc, ScannerError(sc.line, "Unexpected character."))

\* A scan_tokens whose EOF token carries the line of the first token.
EofTokenFirstLine(sc) == Token("EOF", <<>>, None, 1)

\* The EOF token scan_tokens pushes when the loop ends.
EofToken(sc) == Token("EOF", <<>>, None, sc.line)


(***************************************************************************)
(* expr.rs, stmt.rs: the syntax trees.  An Option<Expr> is None or Some(e). *)
(***************************************************************************)
ExprBinary(left, operator, right) == <<"Binary", left, operator, right>>
ExprGrouping(expression) == <<"Grouping", expression>>
ExprLiteral(value) == <<"Literal", value>>
ExprUnary(operator, right) == <<"Unary", operator, right>>
ExprVariable(name) == <<"Variable", name>>
ExprAssign(name, value) == <<"Assign", name, value>>

StmtExpression(expr) == <<"Expression", expr>>
StmtPrint(expr) == <<"Print", expr>>
StmtVar(name, initializer) == <<"Var", name, initializer>>
StmtBlock(stmts) == <<"Block", stmts>>

(***************************************************************************)
(* parser.rs.  The struct is {tokens, current}; the model adds `raised`,   *)
(* the ParseErrors returned as Err so far, `reported`, the ParseErrors     *)
(* written with eprintln!, and `panicked`, set when an index leaves the    *)
(* token vector.                                                           *)
(***************************************************************************)
ParserNew(tokens) ==
    [tokens |-> tokens, current |-> 0, raised |-> <<>>, reported |-> <<>>,
     panicked |-> FALSE]

ParseError(token, message) == <<"ParseError", token, message>>

\* The outcome of a parser method: Ok(val), Err(err) or a panic.
POk(p, val) == [k |-> "Ok", p |-> p, val |-> val, err |-> None]
PErr(p, e) ==
    [k |-> "Err", p |-> [p EXCEPT !.raised = Append(@, e)], val |-> None,
     err |-> Some(e)]
PPanic(p) == [k |-> "Panic", p |-> [p EXCEPT !.panicked = TRUE], val |-> None, err |-> None]
\* A method that calls itself again in the state it was called in: the
\* recursion has no end and the call never returns (the stack overflows).
POverflow(p) == [k |-> "Overflow", p |-> p, val |-> None, err |-> None]

peek(p) == At(p.tokens, p.current)

is_at_end(p) == peek(p).typ = "EOF"

check_token(p, typ) == IF is_at_end(p) THEN FALSE ELSE peek(p).typ = typ

previous(p) == At(p.tokens, p.current - 1)

\* advance(): the parser after it; the token it returns is previous() of
\* that parser.  tokens[current] past the vector and tokens[0 - 1] panic.
\* An advance that moves also at EOF: the cursor leaves the vector, where
\* the next token access panics.
advance_unchecked(p) ==
    IF p.current + 1 >= Len(p.tokens)
    THEN [p EXCEPT !.current = @ + 1, !.panicked = TRUE]
    ELSE [p EXCEPT !.current = @ + 1]

advance(p) ==
    IF p.current >= Len(p.tokens) THEN [p EXCEPT !.panicked = TRUE]
    ELSE LET p1 == IF ~is_at_end(p) THEN [p EXCEPT !.current = @ + 1] ELSE p
         IN  IF p1.current = 0 THEN [p1 EXCEPT !.panicked = TRUE] ELSE p1

\* matches_token(typ) is check_token(typ), and advance() when it holds.
consume(p, typ, msg) ==
    IF check_token(p, typ)
    THEN LET p1 == advance(p)
         IN  IF p1.panicked THEN PPanic(p1) ELSE POk(p1, previous(p1))
    ELSE PErr(p, ParseError(peek(p), msg))

unwrap_or(opt, default) == IF opt[1] = "Some" THEN opt[2] ELSE default

\* `let x = v; K(x)`, v being evaluated once.
Bind(v, K(_)) == CHOOSE y \in {K(x) : x \in {v}} : TRUE

\* `let x = r?; K(x)`: an outcome that is not Ok is returned as it is.
Try(r, K(_)) == Bind(r, LAMBDA x : IF x.k # "Ok" THEN x ELSE K(x))

\* The operators of one precedence level and the method parsing its operands.
LevelOperators(level) ==
    CASE level = "equality" -> {"BangEqual", "EqualEqual"}
      [] level = "comparison" -> {"Greater", "GreaterEqual", "Less", "LessEqual"}
      [] level = "term" -> {"Minus", "Plus"}
      [] level = "factor" -> {"Slash", "Star"}

RECURSIVE expression(_), assignment(_), BinaryLevel(_, _), BinaryLoop(_, _, _),
          BinaryOperand(_, _), unary(_), primary(_)

primary(p) ==
    LET p1 == advance(p)
        token == previous(p1)
    IN  IF p1.panicked THEN PPanic(p1)
        ELSE CASE token.typ = "LeftParen" /\ is_at_end(p) ->
                    \* advance() did not move and returned the `(` before
                    \* EOF: expression() enters primary in this very state.
                    POverflow(p1)
               [] token.typ = "LeftParen" /\ ~is_at_end(p) ->
                    Try(expression(p1), LAMBDA e :
                    Try(consume(e.p, "RightParen", "expected ')' after expression"),
                        LAMBDA c : POk(c.p, ExprGrouping(e.val))))
               [] token.typ \in {"String", "Number", "True", "False", "Nil"} ->
                    POk(p1, ExprLiteral(unwrap_or(token.literal, LitNil)))
               [] token.typ = "Identifier" -> POk(p1, ExprVariable(token))
               [] OTHER -> PErr(p1, ParseError(token, "expected expression"))

unary(p) ==
    IF peek(p).typ \in {"Bang", "Minus"}
    THEN LET p1 == advance(p)
             operator == previous(p1)
         IN  IF p1.panicked THEN PPanic(p1)
             ELSE Try(unary(p1), LAMBDA right :
                      POk(right.p, ExprUnary(operator, right.val)))
    ELSE primary(p)

BinaryOperand(level, p) ==
    CASE level = "equality" -> BinaryLevel("comparison", p)
      [] level = "comparison" -> BinaryLevel("term", p)
      [] level = "term" -> BinaryLevel("factor", p)
      [] level = "factor" -> unary(p)

\* `while let <operators> = self.peek().typ { ... }`
BinaryLoop(level, p, expr) ==
    IF peek(p).typ \in LevelOperators(level)
    THEN LET p1 == advance(p)
             operator == previous(p1)
         IN  IF p1.panicked THEN PPanic(p1)
             ELSE Try(BinaryOperand(level, p1), LAMBDA right :
                      BinaryLoop(level, right.p,
                                 ExprBinary(expr, operator, right.val)))
    ELSE POk(p, expr)

BinaryLevel(level, p) ==
    Try(BinaryOperand(level, p), LAMBDA first : BinaryLoop(level, first.p, first.val))

factor(p) == BinaryLevel("factor", p)
term(p) == BinaryLevel("term", p)
comparison(p) == BinaryLevel("comparison", p)
equality(p) == BinaryLevel("equality", p)

\* An assignment for which an invalid target is an error that aborts.
assignment_abort(p) ==
    Try(equality(p), LAMBDA expr :
        IF check_token(expr.p, "Equal")
        THEN LET p1 == advance(expr.p)
                 equals == previous(p1)
             IN  IF p1.panicked THEN PPanic(p1)
                 ELSE Try(assignment(p1), LAMBDA value :
                          IF expr.val[1] = "Variable"
                          THEN POk(value.p, ExprAssign(expr.val[2], value.val))
                          ELSE PErr(value.p, ParseError(equals,
                                                 "Invalid assignment target")))
        ELSE expr)

assignment(p) ==
    Try(equality(p), LAMBDA expr :
        IF check_token(expr.p, "Equal")
        THEN LET p1 == advance(expr.p)
                 equals == previous(p1)
             IN  IF p1.panicked THEN PPanic(p1)
                 ELSE Try(assignment(p1), LAMBDA value :
                          IF expr.val[1] = "Variable"
                          THEN POk(value.p, ExprAssign(expr.val[2], value.val))
                          ELSE POk([value.p EXCEPT !.reported =
                                       Append(@, ParseError(equals,
                                                 "Invalid assignment target"))],
                                   expr.val))
        ELSE expr)

expression(p) == assignment(p)

expression_statement(p) ==
    Try(expression(p), LAMBDA expr :
    Try(consume(expr.p, "Semicolon", "Expected ';' after expression."),
        LAMBDA c : POk(c.p, StmtExpression(expr.val))))

print_statement(p) ==
    Try(expression(p), LAMBDA value :
    Try(consume(value.p, "Semicolon", "Expected ';' after print statement."),
        LAMBDA c : POk(c.p, StmtPrint(value.val))))

\* `if self.matches_token(Equal) { Some(self.expression()?) } else { None }`
VarInitializer(p) ==
    IF check_token(p, "Equal")
    THEN LET p1 == advance(p)
         IN  IF p1.panicked THEN PPanic(p1)
             ELSE Try(expression(p1), LAMBDA e : POk(e.p, Some(e.val)))
    ELSE POk(p, None)

var_declaration(p) ==
    Try(consume(p, "Identifier", "Expected variable name."), LAMBDA name :
    Try(VarInitializer(name.p), LAMBDA initializer :
    Try(consume(initializer.p, "Semicolon", "Expected ';' after variable declaration."),
        LAMBDA c : POk(c.p, StmtVar(name.val, initializer.val)))))

SyncKeywords == {"Class", "Fun", "Var", "For", "If", "While", "Print", "Return"}

RECURSIVE SynchronizeLoop(_)
SynchronizeLoop(p) ==
    IF p.panicked \/ is_at_end(p) THEN p
    ELSE IF previous(p).typ = "Semicolon" THEN p
    ELSE IF peek(p).typ \in SyncKeywords THEN p
    ELSE SynchronizeLoop(advance(p))

\* A synchronize that discards one token and returns.
synchronize_one_token(p) == advance(p)

synchronize(p) == SynchronizeLoop(advance(p))

\* The statement the recovering path of declaration() returns.
Placeholder == StmtExpression(ExprLiteral(LitNil))

RECURSIVE declaration(_), statement(_), block(_), BlockLoop(_, _)

\* `self.var_declaration().or_else(|_| { self.synchronize(); Ok(placeholder) })`
declaration(p) ==
    IF check_token(p, "Var")
    THEN LET p1 == advance(p)
         IN  IF p1.panicked THEN PPanic(p1)
             ELSE Bind(var_declaration(p1), LAMBDA r :
                      IF r.k = "Err"
                      THEN LET p2 == synchronize(r.p)
                           IN  IF p2.panicked THEN PPanic(p2) ELSE POk(p2, Placeholder)
                      ELSE r)
    ELSE statement(p)

statement(p) ==
    IF check_token(p, "Print") THEN
        LET p1 == advance(p) IN IF p1.panicked THEN PPanic(p1) ELSE print_statement(p1)
    ELSE IF check_token(p, "LeftBrace") THEN
        LET p1 == advance(p) IN IF p1.panicked THEN PPanic(p1) ELSE block(p1)
    ELSE expression_statement(p)

BlockLoop(p, stmts) ==
    IF ~check_token(p, "RightBrace") /\ ~is_at_end(p)
    THEN Try(declaration(p), LAMBDA d : BlockLoop(d.p, Append(stmts, d.val)))
    ELSE Try(consume(p, "RightBrace", "Expected '}' after block."),
             LAMBDA c : POk(c.p, StmtBlock(stmts)))

block(p) == BlockLoop(p, <<>>)

(***************************************************************************)
(* environment.rs.  An Rc<RefCell<Environment>> is an index into the heap  *)
(* `envs`; enclosing = 0 is None.  `values` is a function whose domain is  *)
(* the set of names the HashMap holds.                                     *)
(***************************************************************************)
EnvironmentNew == [enclosing |-> 0, values |-> <<>>]

new_enclosed(enclosing) == [enclosing |-> enclosing, values |-> <<>>]

UndefinedVariable(name) == <<"UndefinedVariable", name>>

RuntimeErrorToken(token, message) == <<"Token", token, message>>

\* The outcome of a method that may mutate environments: the heap after
\* it, and Ok(val) or Err(err).
EOk(h, val) == [k |-> "Ok", envs |-> h, val |-> val, err |-> None]
EErr(h, e) == [k |-> "Err", envs |-> h, val |-> None, err |-> Some(e)]

contains_key(h, e, name) == name \in DOMAIN h[e].values

\* A define that writes to the enclosing environment when there is one.
define_enclosing(h, e, name, value) ==
    LET to == IF h[e].enclosing # 0 THEN h[e].enclosing ELSE e
    IN  [h EXCEPT ![to].values =
            [n \in DOMAIN @ \cup {name} |-> IF n = name THEN value ELSE @[n]]]

define(h, e, name, value) ==
    [h EXCEPT ![e].values =
        [n \in DOMAIN @ \cup {name} |-> IF n = name THEN value ELSE @[n]]]

RECURSIVE assign(_, _, _, _)

\* An assign that defines an unknown name in the outermost environment.
assign_implicit_global(h, e, name, value) ==
    IF contains_key(h, e, name) THEN EOk(define(h, e, name, value), None)
    ELSE IF h[e].enclosing # 0 THEN assign(h, h[e].enclosing, name, value)
    ELSE EOk(define(h, e, name, value), None)

\* An assign that does not walk outward: it writes to the environment it
\* is called on whenever that one has the name or an enclosing environment.
assign_no_walk(h, e, name, value) ==
    IF contains_key(h, e, name) \/ h[e].enclosing # 0
    THEN EOk(define(h, e, name, value), None)
    ELSE EErr(h, UndefinedVariable(name))

assign(h, e, name, value) ==
    IF contains_key(h, e, name) THEN EOk(define(h, e, name, value), None)
    ELSE IF h[e].enclosing # 0 THEN assign(h, h[e].enclosing, name, value)
    ELSE EErr(h, UndefinedVariable(name))

RECURSIVE get(_, _, _)
get(h, e, name) ==
    IF contains_key(h, e, name) THEN EOk(h, h[e].values[name])
    ELSE IF h[e].enclosing # 0 THEN get(h, h[e].enclosing, name)
    ELSE EErr(h, UndefinedVariable(name))

(***************************************************************************)
(* interpreter.rs: expressions.  Each visit takes the heap and the current *)
(* environment and yields the heap after it with Ok(value) or Err(error).  *)
(***************************************************************************)
\* An is_truthy for which the number 0 and the empty string are false.
is_truthy_empty_false(literal) ==
    CASE literal[1] = "Nil" -> FALSE
      [] literal[1] = "Boolean" -> literal[2]
      [] literal[1] = "Number" -> literal[2] # 0
      [] literal[1] = "String" -> literal[2] # <<>>

is_truthy(literal) ==
    CASE literal[1] = "Nil" -> FALSE
      [] literal[1] = "Boolean" -> literal[2]
      [] OTHER -> TRUE

\* An equality that compares what the two values display as.
LiteralEqByDisplay(a, b) == LiteralDisplay(a) = LiteralDisplay(b)

\* #[derive(PartialEq)] on Literal
LiteralEq(a, b) == a[1] = b[1] /\ a = b

BothNumbers(left, right) == left[1] = "Number" /\ right[1] = "Number"

\* left < right on Numbers
NumLess(left, right) == left[2] * right[3] < right[2] * left[3]

\* The match on expr.operator.typ of visit_binary, operands evaluated.
BinaryMatch(h, operator, left, right) ==
    LET typ == operator.typ
        mustBeNumbers ==
            EErr(h, RuntimeErrorToken(operator, "Operands must be numbers."))
    IN  CASE typ = "Minus" ->
                IF BothNumbers(left, right)
                THEN EOk(h, LitNumber(left[2] * right[3] - right[2] * left[3],
                                      left[3] * right[3]))
                ELSE mustBeNumbers
          [] typ = "Slash" ->
                IF BothNumbers(left, right)
                THEN IF right[2] = 0
                     THEN EErr(h, RuntimeErrorToken(operator, "Cannot divide by zero."))
                     ELSE EOk(h, LitNumber(left[2] * right[3], left[3] * right[2]))
                ELSE mustBeNumbers
          [] typ = "Star" ->
                IF BothNumbers(left, right)
                THEN EOk(h, LitNumber(left[2] * right[2], left[3] * right[3]))
                ELSE mustBeNumbers
          [] typ = "Plus" ->
                IF BothNumbers(left, right)
                THEN EOk(h, LitNumber(left[2] * right[3] + right[2] * left[3],
                                      left[3] * right[3]))
                ELSE IF left[1] = "String" /\ right[1] = "String"
                THEN EOk(h, LitString(left[2] \o right[2]))
                ELSE EErr(h, RuntimeErrorToken(operator,
                              "Operands must be two numbers or two strings."))
          [] typ = "Greater" ->
                IF BothNumbers(left, right)
                THEN EOk(h, LitBoolean(NumLess(right, left)))
                ELSE mustBeNumbers
          [] typ = "GreaterEqual" ->
                IF BothNumbers(left, right)
                THEN EOk(h, LitBoolean(~NumLess(left, right)))
                ELSE mustBeNumbers
          [] typ = "Less" ->
                IF BothNumbers(left, right)
                THEN EOk(h, LitBoolean(NumLess(left, right)))
                ELSE mustBeNumbers
          [] typ = "LessEqual" ->
                IF BothNumbers(left, right)
                THEN EOk(h, LitBoolean(~NumLess(right, left)))
                ELSE mustBeNumbers
          [] typ = "BangEqual" -> EOk(h, LitBoolean(~LiteralEq(left, right)))
          [] typ = "EqualEqual" -> EOk(h, LitBoolean(LiteralEq(left, right)))

RECURSIVE ExprAccept(_, _, _), visit_binary(_, _, _), visit_grouping(_, _, _),
          visit_unary(_, _, _), visit_assign(_, _, _)

visit_binary(expr, h, e) ==
    Try(ExprAccept(expr[2], h, e), LAMBDA left :
    Try(ExprAccept(expr[4], left.envs, e), LAMBDA right :
        BinaryMatch(right.envs, expr[3], left.val, right.val)))

visit_grouping(expr, h, e) == ExprAccept(expr[2], h, e)

visit_literal(expr, h, e) == EOk(h, expr[2])

visit_unary(expr, h, e) ==
    Try(ExprAccept(expr[3], h, e), LAMBDA right :
        LET operator == expr[2]
        IN  CASE operator.typ = "Minus" ->
                    IF right.val[1] = "Number"
                    THEN EOk(right.envs, LitNumber(-right.val[2], right.val[3]))
                    ELSE EErr(right.envs,
                              RuntimeErrorToken(operator, "Invalid operand for unary minus"))
              [] operator.typ = "Bang" ->
                    EOk(right.envs, LitBoolean(~is_truthy(right.val))))

visit_variable(expr, h, e) == get(h, e, expr[2].lexeme)

\* A visit_assign whose value is nil instead of the assigned literal.
visit_assign_yields_nil(expr, h, e) ==
    Try(ExprAccept(expr[3], h, e), LAMBDA value :
    Try(assign(value.envs, e, expr[2].lexeme, value.val), LAMBDA a :
        EOk(a.envs, LitNil)))

visit_assign(expr, h, e) ==
    Try(ExprAccept(expr[3], h, e), LAMBDA value :
    Try(assign(value.envs, e, expr[2].lexeme, value.val), LAMBDA a :
        EOk(a.envs, value.val)))

\* Expr::accept, which is ExpressionVisitor::visit
ExprAccept(expr, h, e) ==
    CASE expr[1] = "Binary" -> visit_binary(expr, h, e)
      [] expr[1] = "Grouping" -> visit_grouping(expr, h, e)
      [] expr[1] = "Literal" -> visit_literal(expr, h, e)
      [] expr[1] = "Unary" -> visit_unary(expr, h, e)
      [] expr[1] = "Variable" -> visit_variable(expr, h, e)
      [] expr[1] = "Assign" -> visit_assign(expr, h, e)

(***************************************************************************)
(* interpreter.rs: statements.  A frame of `stack` is one live call of     *)
(* interpret or execute_block: its statements, the index i of the          *)
(* statement its loop is at, and for execute_block the local `environment` *)
(* (line 67), the environment that was current on entry.  Two history      *)
(* fields serve the properties only: entry_envs, the heap on entry, and    *)
(* declared, for each name a `var` of this call defined, what the          *)
(* enclosing chain answered for the name when it was first defined.        *)
(***************************************************************************)
Frame(fn, stmts, env, h) ==
    [fn |-> fn, block |-> stmts, i |-> 0, environment |-> env,
     entry_envs |-> h, declared |-> <<>>]

InterpreterNew == <<EnvironmentNew>>

Top == stack[Len(stack)]

Running == pc = "interpret" /\ stack # <<>>

HasStmt == Top.i < Len(Top.block)

\* The statement `stmt.accept(self)` is called on.
Cur == At(Top.block, Top.i)

Pop(st) == SubSeq(st, 1, Len(st) - 1)

\* accept returned Ok(()): the loop goes to its next statement.
Continue(h) ==
    /\ envs' = h
    /\ stack' = [stack EXCEPT ![Len(stack)].i = @ + 1]
    /\ UNCHANGED <<pc, result>>

\* accept returned Err(e): `?` makes the enclosing call return it.
Raise(h, e) ==
    /\ envs' = h
    /\ result' = <<"Err", e>>
    /\ pc' = "unwind"
    /\ UNCHANGED stack

visit_expression ==
    /\ Running /\ HasStmt /\ Cur[1] = "Expression"
    /\ \E r \in {ExprAccept(Cur[2], envs, environment)} :
          IF r.k = "Ok" THEN Continue(r.envs) ELSE Raise(r.envs, r.err[2])
    /\ UNCHANGED <<input, scanner, parser, statements, environment, stdout, stderr>>

visit_print ==
    /\ Running /\ HasStmt /\ Cur[1] = "Print"
    /\ \E r \in {ExprAccept(Cur[2], envs, environment)} :
          IF r.k = "Ok"
          THEN Continue(r.envs) /\ stdout' = Append(stdout, LiteralDisplay(r.val))
          ELSE Raise(r.envs, r.err[2]) /\ stdout' = stdout
    /\ UNCHANGED <<input, scanner, parser, statements, environment, stderr>>

visit_var ==
    /\ Running /\ HasStmt /\ Cur[1] = "Var"
    /\ \E r \in {IF Cur[3][1] = "Some" THEN ExprAccept(Cur[3][2], envs, environment)
                  ELSE EOk(envs, LitNil)} :
       LET name == Cur[2].lexeme
           outer == IF envs[environment].enclosing = 0
                    THEN EErr(r.envs, UndefinedVariable(name))
                    ELSE get(r.envs, envs[environment].enclosing, name)
       IN  IF r.k = "Ok"
           THEN /\ envs' = define(r.envs, environment, name, r.val)
                /\ stack' = [stack EXCEPT
                      ![Len(stack)].i = @ + 1,
                      ![Len(stack)].declared =
                          IF name \in DOMAIN @ THEN @
                          ELSE [n \in DOMAIN @ \cup {name} |->
                                   IF n = name THEN <<outer.k, outer.val>> ELSE @[n]]]
                /\ UNCHANGED <<pc, result>>
           ELSE Raise(r.envs, r.err[2])
    /\ UNCHANGED <<input, scanner, parser, statements, environment, stdout, stderr>>

\* visit_block calls execute_block, which makes the block's environment
\* the current one (lines 67-68).
visit_block ==
    /\ Running /\ HasStmt /\ Cur[1] = "Block"
    /\ envs' = Append(envs, new_enclosed(environment))
    /\ environment' = Len(envs) + 1
    /\ stack' = Append(stack, Frame("execute_block", Cur[2], environment, envs))
    /\ UNCHANGED <<pc, input, scanner, parser, statements, stdout, stderr, result>>

\* Lines 72-77: the loop of execute_block is over; the enclosing
\* environment of the current one becomes current, and the block's
\* environment, the newest of the heap, loses its last reference.
execute_block_return ==
    /\ Running /\ Top.fn = "execute_block" /\ ~HasStmt
    /\ envs[environment].enclosing # 0
    /\ environment' = envs[environment].enclosing
    /\ envs' = IF environment = Len(envs) THEN Pop(envs) ELSE envs
    /\ stack' = [Pop(stack) EXCEPT ![Len(stack) - 1].i = @ + 1]
    /\ UNCHANGED <<pc, input, scanner, parser, statements, stdout, stderr, result>>

\* Line 70: `stmt.accept(self)?` returns the error from execute_block.
execute_block_err ==
    /\ pc = "unwind" /\ stack # <<>> /\ Top.fn = "execute_block"
    /\ stack' = Pop(stack)
    /\ UNCHANGED <<pc, input, scanner, parser, statements, envs, environment,
                   stdout, stderr, result>>

\* Line 62: interpret returns Ok(()).
interpret_return ==
    /\ Running /\ Top.fn = "interpret" /\ ~HasStmt
    /\ stack' = <<>>
    /\ pc' = "interpreted"
    /\ result' = <<"Ok">>
    /\ UNCHANGED <<input, scanner, parser, statements, envs, environment, stdout, stderr>>

\* An interpret that drops the error and goes on with the next statement.
interpret_err_continue ==
    /\ pc = "unwind" /\ stack # <<>> /\ Top.fn = "interpret"
    /\ stack' = [stack EXCEPT ![Len(stack)].i = @ + 1]
    /\ pc' = "interpret"
    /\ UNCHANGED <<input, scanner, parser, statements, envs, environment,
                   stdout, stderr, result>>

\* Line 60: `stmt.accept(self)?` returns the error from interpret.
interpret_err ==
    /\ pc = "unwind" /\ stack # <<>> /\ Top.fn = "interpret"
    /\ stack' = <<>>
    /\ pc' = "runtime_err"
    /\ UNCHANGED <<input, scanner, parser, statements, envs, environment,
                   stdout, stderr, result>>

\* Line 54: run calls interpret(stmts).
run_interpret ==
    /\ pc = "parsed"
    /\ stack' = <<Frame("interpret", statements, 0, <<>>)>>
    /\ pc' = "interpret"
    /\ UNCHANGED <<input, scanner, parser, statements, envs, environment,
                   stdout, stderr, result>>

Evaluate ==
    \/ run_interpret
    \/ visit_expression
    \/ visit_print
    \/ visit_var
    \/ visit_block
    \/ execute_block_return
    \/ execute_block_err
    \/ interpret_return
    \/ interpret_err

(***************************************************************************)
(* scanner.rs, parser.rs: the loops of scan_tokens and parse.              *)
(***************************************************************************)
\* Lines 52-55: one turn of the loop of scan_tokens.
scan_tokens_step ==
    /\ pc = "scan" /\ ~ScIsAtEnd(scanner)
    /\ \E r \in {scan_token([scanner EXCEPT !.start = scanner.current])} :
           /\ scanner' = r.sc
           /\ IF r.err = None
              THEN UNCHANGED <<pc, result>>
              ELSE pc' = "scan_err" /\ result' = <<"Err", r.err[2]>>
    /\ UNCHANGED <<input, parser, statements, envs, environment, stack, stdout, stderr>>

\* Lines 57-59: the loop is over; EOF is pushed and the tokens returned.
scan_tokens_return ==
    /\ pc = "scan" /\ ScIsAtEnd(scanner)
    /\ scanner' = [scanner EXCEPT !.tokens = Append(@, EofToken(scanner))]
    /\ result' = <<"Ok", scanner'.tokens>>
    /\ pc' = "scanned"
    /\ UNCHANGED <<input, parser, statements, envs, environment, stack, stdout, stderr>>

Scan == scan_tokens_step \/ scan_tokens_return

\* interpreter.rs line 52: Parser::new(tokens)
run_parser_new ==
    /\ pc = "scanned"
    /\ parser' = ParserNew(result[2])
    /\ statements' = <<>>
    /\ pc' = "parse"
    /\ UNCHANGED <<input, scanner, envs, environment, stack, stdout, stderr, result>>

\* parser.rs lines 19-21: one turn of the loop of parse.
parse_step ==
    /\ pc = "parse" /\ ~is_at_end(parser)
    /\ \E r \in {declaration(parser)} :
           /\ parser' = r.p
           /\ stderr' = stderr \o SubSeq(r.p.reported, Len(parser.reported) + 1,
                                         Len(r.p.reported))
           /\ CASE r.k = "Ok" ->
                    statements' = Append(statements, r.val) /\ UNCHANGED <<pc, result>>
                [] r.k = "Err" ->
                    pc' = "parse_err" /\ result' = <<"Err", r.err[2]>>
                    /\ UNCHANGED statements
                [] r.k = "Panic" ->
                    pc' = "panic" /\ UNCHANGED <<statements, result>>
                [] r.k = "Overflow" ->
                    pc' = "stack_overflow" /\ UNCHANGED <<statements, result>>
    /\ UNCHANGED <<input, scanner, envs, environment, stack, stdout>>

\* parser.rs line 22: Ok(statements)
parse_return ==
    /\ pc = "parse" /\ is_at_end(parser)
    /\ pc' = "parsed"
    /\ result' = <<"Ok", statements>>
    /\ UNCHANGED <<input, scanner, parser, statements, envs, environment, stack,
                   stdout, stderr>>

Parse == parse_step \/ parse_return

(***************************************************************************)
(* interpreter.rs: run_prompt and run.                                     *)
(***************************************************************************)
Whitespace == {" ", "\t", "\n", "\r"}

\* input.trim().is_empty()
TrimIsEmpty(line) == \A i \in 1..Len(line) : line[i] \in Whitespace

\* Lines 37-44: a line is read (the empty line at the end of stdin); the
\* loop breaks on a blank one and runs any other.
read_line ==
    /\ pc = "prompt"
    /\ LET line == IF input = <<>> THEN <<>> ELSE Head(input)
       IN  /\ input' = IF input = <<>> THEN <<>> ELSE Tail(input)
           /\ IF TrimIsEmpty(line)
              THEN pc' = "exit_ok" /\ result' = <<"Ok">> /\ UNCHANGED scanner
              ELSE pc' = "scan" /\ scanner' = ScannerNew(line) /\ UNCHANGED result
    /\ UNCHANGED <<parser, statements, envs, environment, stack, stdout, stderr>>

\* Lines 39-40: flush or read_line fails, and `?` returns the error.
read_io_error ==
    /\ pc = "prompt"
    /\ pc' = "exit_err"
    /\ result' = <<"Err", <<"io::Error">>>>
    /\ UNCHANGED <<input, scanner, parser, statements, envs, environment, stack,
                   stdout, stderr>>

\* Lines 55 and 44: run returns Ok(()) and the loop of run_prompt goes on.
run_return ==
    /\ pc = "interpreted"
    /\ pc' = "prompt"
    /\ UNCHANGED <<input, scanner, parser, statements, envs, environment, stack,
                   stdout, stderr, result>>

\* Lines 51, 53, 54 and 44: the `?` of run returns the error of the
\* scanner, the parser or the evaluator, and the `?` of run_prompt returns
\* it from the loop.
run_err ==
    /\ pc \in {"scan_err", "parse_err", "runtime_err"}
    /\ pc' = "exit_err"
    /\ UNCHANGED <<input, scanner, parser, statements, envs, environment, stack,
                   stdout, stderr, result>>

Prompt == read_line \/ read_io_error \/ run_return \/ run_err \/ run_parser_new

(***************************************************************************)
(* Inputs.                                                                 *)
(***************************************************************************)
Tok(typ, lexeme) == Token(typ, lexeme, None, 1)

IdentA == Tok("Identifier", <<"a">>)
IdentB == Tok("Identifier", <<"b">>)
Num(n) == ExprLiteral(LitNumber(n, 1))

\* The statements programs are drawn from, as the parser builds them:
\*   var a = 1;   var a = (a = 3) + 1;   var b;   a = 2;   b = a = 5;
\*   print a;   print -b;
Atoms ==
    << StmtVar(IdentA, Some(Num(1))),
       StmtVar(IdentA, Some(ExprBinary(ExprGrouping(ExprAssign(IdentA, Num(3))),
                                       Tok("Plus", <<"+">>), Num(1)))),
       StmtVar(IdentB, None),
       StmtExpression(ExprAssign(IdentA, Num(2))),
       StmtExpression(ExprAssign(IdentB, ExprAssign(IdentA, Num(5)))),
       StmtPrint(ExprVariable(IdentA)),
       StmtPrint(ExprUnary(Tok("Minus", <<"-">>), ExprVariable(IdentB))) >>

\* A program is drawn as its statements in source order, each a pair of
\* its nesting depth and either 0, a block, or the index of an atom; a
\* statement is nested in the nearest block before it of one depth less.
RECURSIVE ProgramCodes(_)
ProgramCodes(n) ==
    IF n = 0 THEN {<<>>}
    ELSE LET shorter == ProgramCodes(n - 1)
             longest == {c \in shorter : Len(c) = n - 1}
         IN  shorter \cup
             { Append(x[1], <<x[2], x[3]>>) :
                 x \in { y \in longest \X (0..n) \X (0..Len(Atoms)) :
                           IF y[1] = <<>> THEN y[2] = 0
                           ELSE \/ y[2] <= Last(y[1])[1]
                                \/ y[2] = Last(y[1])[1] + 1 /\ Last(y[1])[2] = 0 } }

\* The statements of `code` from position pos on that lie at `depth`,
\* with the position after them.
RECURSIVE DecodeStmts(_, _, _, _)
DecodeStmts(code, pos, depth, acc) ==
    IF pos > Len(code) \/ code[pos][1] # depth THEN [stmts |-> acc, pos |-> pos]
    ELSE IF code[pos][2] = 0
    THEN LET inner == DecodeStmts(code, pos + 1, depth + 1, <<>>)
         IN  DecodeStmts(code, inner.pos, depth, Append(acc, StmtBlock(inner.stmts)))
    ELSE DecodeStmts(code, pos + 1, depth, Append(acc, Atoms[code[pos][2]]))

Program(code) == DecodeStmts(code, 1, 0, <<>>).stmts

(***************************************************************************)
(* The evaluator on every program of at most MaxStmts statements, from a   *)
(* new Interpreter.                                                        *)
(***************************************************************************)
Init ==
    /\ pc = "parsed"
    /\ input = <<>>
    /\ scanner = ScannerNew(<<>>)
    /\ parser = ParserNew(<<>>)
    /\ \E code \in ProgramCodes(MaxStmts) : statements = Program(code)
    /\ envs = InterpreterNew
    /\ environment = 1
    /\ stack = <<>>
    /\ stdout = <<>>
    /\ stderr = <<>>
    /\ result = None

Next == Evaluate

Spec == Init /\ [][Next]_vars

(***************************************************************************)
(* Properties of the evaluator and of the environment chain.               *)
(***************************************************************************)
NameA == <<"a">>
NameB == <<"b">>

\* The names and values assign is probed with in every reachable state.
ProbeNames == {NameA, NameB, <<"c">>}
ProbeValues == {LitNil, LitNumber(7, 1)}

\* The environments from e outward to the globals.
RECURSIVE Chain(_, _)
Chain(h, e) == IF e = 0 THEN <<>> ELSE <<e>> \o Chain(h, h[e].enclosing)

InChain(h, e, name) ==
    \E i \in 1..Len(Chain(h, e)) : name \in DOMAIN h[Chain(h, e)[i]].values

\* The innermost environment of the chain that has the name.
Nearest(h, e, name) ==
    LET c == Chain(h, e)
        i == CHOOSE j \in 1..Len(c) :
                /\ name \in DOMAIN h[c[j]].values
                /\ \A m \in 1..(j - 1) : name \notin DOMAIN h[c[m]].values
    IN  c[i]

\* C1 (as claimed): whenever a call of execute_block returns, with Ok or
\* with a RuntimeError, the interpreter's current environment is the one
\* that was current when the block was entered.
C1_BlockRestoresEnvironment ==
    [][(stack # <<>> /\ Top.fn = "execute_block" /\ Len(stack') = Len(stack) - 1)
          => environment' = Top.environment]_vars

\* C2: in every reachable state, assign of any value to a name that no
\* environment of the current chain contains returns
\* Err(UndefinedVariable(name)) and leaves the whole heap of environments,
\* so every binding of the chain, as it was.
C2_AssignUnknownChangesNothing ==
    \A name \in ProbeNames, v \in ProbeValues :
        ~InChain(envs, environment, name) =>
            LET r == assign(envs, environment, name, v)
            IN  /\ r.k = "Err"
                /\ r.err = Some(UndefinedVariable(name))
                /\ r.envs = envs

\* C2 witness: inside a block, with names bound in the chain, the
\* statement `a = 2;` has just failed on the unknown name a.
C2_Witness ==
    /\ pc = "unwind" /\ Len(stack) >= 2 /\ Top.fn = "execute_block"
    /\ Cur = Atoms[4]
    /\ result = <<"Err", UndefinedVariable(NameA)>>
    /\ InChain(envs, environment, NameB)
    /\ ~InChain(envs, environment, NameA)

\* C3: in every reachable state, assign of any value to a name the chain
\* contains succeeds and changes exactly one thing in the heap: the value
\* of that name in the innermost environment of the chain that has it.
C3_AssignWritesNearestOnly ==
    \A name \in ProbeNames, v \in ProbeValues :
        InChain(envs, environment, name) =>
            LET r == assign(envs, environment, name, v)
            IN  /\ r.k = "Ok"
                /\ r.envs = [envs EXCEPT
                                ![Nearest(envs, environment, name)].values[name] = v]

\* C3 witness: `a = 2;` has run in a block that shadows a: the block's a
\* is 2 and the enclosing a still has its own value.
C3_Witness ==
    /\ pc = "interpret" /\ Len(stack) >= 2 /\ Top.i >= 1
    /\ At(Top.block, Top.i - 1) = Atoms[4]
    /\ NameA \in DOMAIN envs[environment].values
    /\ envs[environment].values[NameA] = LitNumber(2, 1)
    /\ InChain(envs, envs[environment].enclosing, NameA)
    /\ get(envs, envs[environment].enclosing, NameA).val = LitNumber(1, 1)

\* What reading `name` answers: <<"Ok", value>> or <<"Err", None>>.
Read(h, e, name) == LET r == get(h, e, name) IN <<r.k, r.val>>

\* This step is a `var` declaration that succeeds inside a block.
VarInBlockStep ==
    /\ Running /\ HasStmt /\ Cur[1] = "Var" /\ Top.fn = "execute_block"
    /\ Len(stack') = Len(stack) /\ stack'[Len(stack)].i = Top.i + 1

\* This step is the normal return of execute_block.
BlockExitStep ==
    /\ Running /\ Top.fn = "execute_block" /\ ~HasStmt
    /\ Len(stack') = Len(stack) - 1

\* A `var` in a block binds the name in the block's environment, gives no
\* other environment a new name, and from then on reading the name in the
\* block answers the block's binding.
C4_DefinesInnermost ==
    /\ VarInBlockStep =>
          /\ Cur[2].lexeme \in DOMAIN envs'[environment].values
          /\ \A j \in 1..Len(envs) :
                j # environment => DOMAIN envs'[j].values = DOMAIN envs[j].values
    /\ (Running /\ Top.fn = "execute_block") =>
          \A name \in DOMAIN Top.declared :
              /\ name \in DOMAIN envs[environment].values
              /\ Read(envs, environment, name) =
                    <<"Ok", envs[environment].values[name]>>

\* C4 (as claimed): a `var` in a block defines the name in the block's
\* environment only; in the block, reading the name answers the inner
\* value; after the block exits normally, reading the name answers what the
\* enclosing chain answered before the block was entered.
C4_AsClaimed ==
    [][/\ C4_DefinesInnermost
       /\ BlockExitStep =>
             \A name \in DOMAIN Top.declared :
                 Read(envs', environment', name) =
                     Read(Top.entry_envs, Top.environment, name)]_vars

\* C4 (amended): as above, but after the block exits normally, reading the
\* name answers what the enclosing chain answered when the declaration
\* defined the inner binding (a value or UndefinedVariable).
C4_ShadowEndsWithBlock ==
    [][/\ C4_DefinesInnermost
       /\ BlockExitStep =>
             \A name \in DOMAIN Top.declared :
                 Read(envs', environment', name) = Top.declared[name]]_vars

\* C4 witness: `var a = 1; { var a = (a = 3) + 1; }` has run: the block
\* is left and a reads 3, the value the initializer gave the enclosing a.
C4_Witness ==
    /\ pc = "interpret" /\ Len(stack) = 1 /\ Top.i = 2
    /\ Top.block[1] = Atoms[1]
    /\ Top.block[2] = StmtBlock(<<Atoms[2]>>)
    /\ environment = 1 /\ Len(envs) = 1
    /\ Read(envs, environment, NameA) = <<"Ok", LitNumber(3, 1)>>

\* C5: once a statement has raised a RuntimeError, no statement is
\* executed any more: nothing is printed, no environment changes, and the
\* only thing that happens is that the calls in progress return.
C5_ErrorStopsProgram ==
    [][result[1] = "Err" =>
          /\ stdout' = stdout
          /\ envs' = envs
          /\ environment' = environment
          /\ result' = result
          /\ stack' \in {Pop(stack), <<>>}]_vars

\* C5 witness: a top-level statement has failed after something was
\* printed, and statements that would print or define follow it.
C5_Witness ==
    /\ pc = "unwind" /\ Len(stack) = 1 /\ stdout # <<>>
    /\ \E j \in (Top.i + 2)..Len(Top.block) : Top.block[j][1] \in {"Print", "Var"}

(***************************************************************************)
(* The scanner on every source text of at most MaxSrcLen characters over   *)
(* an alphabet with a character of each kind scan_token tells apart.       *)
(***************************************************************************)
ScanAlphabet == {"\"", "\n", "/", "*", "1", ".", "o", "r", "=", " ", "@"}

InitScan ==
    /\ pc = "scan"
    /\ input = <<>>
    /\ \E n \in 0..MaxSrcLen : \E source \in [1..n -> ScanAlphabet] :
          scanner = ScannerNew(source)
    /\ parser = ParserNew(<<>>)
    /\ statements = <<>>
    /\ envs = InterpreterNew
    /\ environment = 1
    /\ stack = <<>>
    /\ stdout = <<>>
    /\ stderr = <<>>
    /\ result = None

SpecScan == InitScan /\ [][Scan]_vars

(***************************************************************************)
(* The parser on every token vector of at most MaxTokens tokens followed   *)
(* by EOF, the tokens being those the scanner makes of                     *)
(*   var  a  =  ;  print  {  }  1  -  (  )                                 *)
(***************************************************************************)
ParseTokens ==
    { Tok("Var", <<"v", "a", "r">>),
      IdentA,
      Tok("Equal", <<"=">>),
      Tok("Semicolon", <<";">>),
      Tok("Print", <<"p", "r", "i", "n", "t">>),
      Tok("LeftBrace", <<"{">>),
      Tok("RightBrace", <<"}">>),
      Token("Number", <<"1">>, Some(LitNumber(1, 1)), 1),
      Tok("Minus", <<"-">>),
      Tok("LeftParen", <<"(">>),
      Tok("RightParen", <<")">>) }

InitParse ==
    /\ pc = "parse"
    /\ input = <<>>
    /\ scanner = ScannerNew(<<>>)
    /\ \E n \in 0..MaxTokens : \E tokens \in [1..n -> ParseTokens] :
          parser = ParserNew(Append(tokens, Token("EOF", <<>>, None, 1)))
    /\ statements = <<>>
    /\ envs = InterpreterNew
    /\ environment = 1
    /\ stack = <<>>
    /\ stdout = <<>>
    /\ stderr = <<>>
    /\ result = None

SpecParse == InitParse /\ [][Parse]_vars

(***************************************************************************)
(* run_prompt on a new Interpreter, stdin holding at most MaxLines of the  *)
(* lines below.                                                            *)
(***************************************************************************)
PromptLines ==
    <<
       <<"v", "a", "r", " ", "a", "=", "1", ";", "\n">>,
       <<"p", "r", "i", "n", "t", " ", "a", ";", "\n">>,
       <<"{", "p", "r", "i", "n", "t", " ", "a", ";", "}", "\n">>,
       <<"v", "a", "r", " ", ";", "p", "r", "i", "n", "t", " ", "2", ";",
        "\n">>,
       <<"p", "r", "i", "n", "t", " ", ";", "\n">>,
       <<"@", "\n">>,
       <<"\n">> >>

RECURSIVE LineSeqs(_)
LineSeqs(n) ==
    IF n = 0 THEN {<<>>}
    ELSE LineSeqs(n - 1) \cup
         { Append(s, j) : s \in {t \in LineSeqs(n - 1) : Len(t) = n - 1},
                          j \in 1..Len(PromptLines) }

InitPrompt ==
    /\ pc = "prompt"
    /\ \E s \in LineSeqs(MaxLines) : input = [i \in 1..Len(s) |-> PromptLines[s[i]]]
    /\ scanner = ScannerNew(<<>>)
    /\ parser = ParserNew(<<>>)
    /\ statements = <<>>
    /\ envs = InterpreterNew
    /\ environment = 1
    /\ stack = <<>>
    /\ stdout = <<>>
    /\ stderr = <<>>
    /\ result = None

NextPrompt == Prompt \/ Scan \/ Parse \/ Evaluate

SpecPrompt == InitPrompt /\ [][NextPrompt]_vars

(***************************************************************************)
(* Properties of run, parse, run_prompt and scan_tokens.                   *)
(***************************************************************************)
\* C6 (as claimed): errors never recover across layers in run. After a
\* ScannerError neither the parser nor the evaluator does anything; and
\* once the parser has raised a ParseError in the program, nothing is
\* printed and no environment changes.
C6_NoRecoveryAcrossLayers ==
    [][/\ pc = "scan_err" =>
             /\ parser' = parser /\ statements' = statements
             /\ stdout' = stdout /\ envs' = envs
       /\ parser.raised # <<>> =>
             /\ stdout' = stdout /\ envs' = envs]_vars

\* C7 (as claimed): a turn of the loop of parse in which declaration
\* raises a ParseError, whatever kind of statement it comes from, does not
\* abort the parse: a statement is appended for the failed declaration and
\* the loop goes on.
C7_ParseErrorRecovers ==
    [][(pc = "parse" /\ Len(parser'.raised) > Len(parser.raised))
          => /\ pc' = "parse"
             /\ Len(statements') = Len(statements) + 1]_vars

\* C8 (as claimed): in run_prompt, when run ends a line with a scanner,
\* parser or runtime error, the loop goes on to the prompt with the same
\* environments; so run_prompt returns an error only for an I/O error.
C8_PromptContinuesAfterError ==
    [][/\ pc \in {"scan_err", "parse_err", "runtime_err"} =>
             pc' = "prompt" /\ envs' = envs
       /\ pc' = "exit_err" => result' = <<"Err", <<"io::Error">>>>]_vars

\* The number of '\n' among the first n characters of source.
RECURSIVE NewlinesBefore(_, _)
NewlinesBefore(source, n) ==
    IF n = 0 THEN 0
    ELSE NewlinesBefore(source, n - 1) + (IF source[n] = "\n" THEN 1 ELSE 0)

\* C9 (as claimed): every token a scanning step adds has as its lexeme the
\* characters of the source in [start, current) of that step, and as its
\* line one plus the number of '\n' strictly before start.
C9_LexemeAndLine ==
    [][(pc = "scan" /\ Len(scanner'.tokens) = Len(scanner.tokens) + 1
           /\ Last(scanner'.tokens).typ # "EOF")
          => LET t == Last(scanner'.tokens)
             IN  /\ t.lexeme = SubSeq(scanner.source, scanner'.start + 1,
                                      scanner'.current)
                 /\ t.line = 1 + NewlinesBefore(scanner.source, scanner'.start)]_vars

\* C10: a scan_tokens that succeeds returns tokens of which the last is
\* EOF with the empty lexeme, no literal and the number of the last line
\* of the source, and of which no other is EOF; a scan_tokens that fails
\* returns a ScannerError and no tokens, and scans no further.
C10_EofLastAndOnly ==
    /\ pc = "scanned" =>
          /\ result[1] = "Ok" /\ result[2] # <<>>
          /\ Last(result[2]) =
                Token("EOF", <<>>, None,
                      1 + NewlinesBefore(scanner.source, Len(scanner.source)))
          /\ \A i \in 1..(Len(result[2]) - 1) : result[2][i].typ # "EOF"
    /\ pc = "scan_err" =>
          /\ result[1] = "Err" /\ result[2][1] = "ScannerError"
          /\ ~ENABLED Scan

\* C10 witness: a source of several lines has been scanned into tokens
\* and the EOF token.
C10_Witness ==
    /\ pc = "scanned" /\ Len(result[2]) >= 3
    /\ Last(result[2]).typ = "EOF" /\ Last(result[2]).line >= 2

(***************************************************************************)
(* Properties of the parser's methods, on the parser states parse reaches  *)
(* between two declarations.                                               *)
(***************************************************************************)
\* C11: whenever assignment parses a left-hand side that is not a Variable
\* and is followed by `=`, and the right-hand side parses, assignment
\* returns Ok with the left-hand side alone as its expression, the cursor
\* where the right-hand side ended, no error raised, and exactly one more
\* report: "Invalid assignment target" at the `=` token.
C11_InvalidTargetReported ==
    (pc = "parse" /\ ~is_at_end(parser)) =>
        LET l == equality(parser)
        IN  (l.k = "Ok" /\ check_token(l.p, "Equal") /\ l.val[1] # "Variable") =>
                LET v == assignment(advance(l.p))
                    r == assignment(parser)
                IN  v.k = "Ok" =>
                        /\ r.k = "Ok"
                        /\ r.val = l.val
                        /\ r.val[1] # "Assign"
                        /\ r.p.current = v.p.current
                        /\ r.p.raised = v.p.raised
                        /\ r.p.reported =
                              Append(v.p.reported,
                                     ParseError(peek(l.p), "Invalid assignment target"))

\* C11 witness: `1 = 1 ;` has been parsed into the statement `1;`, the
\* report is written and the parse goes on.
C11_Witness ==
    /\ pc = "parse"
    /\ statements = <<StmtExpression(Num(1))>>
    /\ Len(parser.reported) = 1
    /\ parser.reported[1][3] = "Invalid assignment target"
    /\ parser.raised = <<>>
    /\ parser.current = 4

(***************************************************************************)
(* Properties of the expressions, on the states the evaluator reaches.     *)
(***************************************************************************)
\* The tokens of `x = y = 7`.
ChainedAssignTokens(x, y) ==
    << Tok("Identifier", x), Tok("Equal", <<"=">>),
       Tok("Identifier", y), Tok("Equal", <<"=">>),
       Token("Number", <<"7">>, Some(LitNumber(7, 1)), 1),
       Token("EOF", <<>>, None, 1) >>

\* The expression Assign(x, Assign(y, 7)).
ChainedAssign(x, y) ==
    ExprAssign(Tok("Identifier", x), ExprAssign(Tok("Identifier", y), Num(7)))

\* C12: `x = y = 7` parses as Assign(x, Assign(y, 7)); the parse reads no
\* interpreter state, so it is checked once per run of the programs of at
\* most one statement, where the run starts.  In every reachable state
\* where the chain defines y, evaluating the expression first assigns 7 to
\* y; then, when the chain defines x, it
\* assigns 7 to x and yields 7, and when the chain lacks x it fails with
\* UndefinedVariable(x), y keeping the 7 the value expression gave it
\* before assign of x was invoked.
C12_ChainedAssignment ==
    /\ pc = "parsed" /\ Len(statements) <= 1 =>
          \A x \in ProbeNames, y \in ProbeNames :
              LET parsed == assignment(ParserNew(ChainedAssignTokens(x, y)))
              IN  parsed.k = "Ok" /\ parsed.val = ChainedAssign(x, y)
    /\ \A y \in {n \in ProbeNames : InChain(envs, environment, n)} :
       \A afterY \in {assign(envs, environment, y, LitNumber(7, 1))} :
       \A x \in ProbeNames :
       \A r \in {ExprAccept(ChainedAssign(x, y), envs, environment)} :
           /\ afterY.k = "Ok"
           /\ IF InChain(envs, environment, x)
              THEN /\ r.k = "Ok" /\ r.val = LitNumber(7, 1)
                   /\ r.envs = assign(afterY.envs, environment, x,
                                      LitNumber(7, 1)).envs
              ELSE /\ r.k = "Err" /\ r.err = Some(UndefinedVariable(x))
                   /\ r.envs = afterY.envs

\* C12 witness: `b = a = 5;` has run in a block with a and b defined in
\* different environments: both read 5.
C12_Witness ==
    /\ pc = "interpret" /\ Len(stack) >= 2 /\ Top.i >= 1
    /\ At(Top.block, Top.i - 1) = Atoms[5]
    /\ Nearest(envs, environment, NameA) # Nearest(envs, environment, NameB)
    /\ Read(envs, environment, NameA) = <<"Ok", LitNumber(5, 1)>>
    /\ Read(envs, environment, NameB) = <<"Ok", LitNumber(5, 1)>>

(***************************************************************************)
(* Expr::accept on one expression: every binary operator on every pair of  *)
(* the values below, and `!x` and `!!x` on every one of them.              *)
(***************************************************************************)
ExprValues ==
    { LitNil, LitBoolean(TRUE), LitBoolean(FALSE),
      LitNumber(0, 1), LitNumber(1, 1), LitNumber(2, 1), LitNumber(-1, 1),
      LitNumber(1, 2),
      LitString(<<>>), LitString(<<"a">>), LitString(<<"1">>),
      LitString(<<"n", "i", "l">>) }

BinaryOperators ==
    { Tok("Minus", <<"-">>), Tok("Plus", <<"+">>), Tok("Slash", <<"/">>),
      Tok("Star", <<"*">>), Tok("Greater", <<">">>),
      Tok("GreaterEqual", <<">", "=">>), Tok("Less", <<"<">>),
      Tok("LessEqual", <<"<", "=">>), Tok("BangEqual", <<"!", "=">>),
      Tok("EqualEqual", <<"=", "=">>) }

TokBang == Tok("Bang", <<"!">>)

ExprInputs ==
    { ExprBinary(ExprLiteral(l), op, ExprLiteral(r)) :
          l \in ExprValues, op \in BinaryOperators, r \in ExprValues }
    \cup { ExprUnary(TokBang, ExprLiteral(x)) : x \in ExprValues }
    \cup { ExprUnary(TokBang, ExprUnary(TokBang, ExprLiteral(x))) : x \in ExprValues }

InitExpr ==
    /\ pc = "expr"
    /\ input = <<>>
    /\ scanner = ScannerNew(<<>>)
    /\ parser = ParserNew(<<>>)
    /\ \E e \in ExprInputs : statements = <<StmtExpression(e)>>
    /\ envs = InterpreterNew
    /\ environment = 1
    /\ stack = <<>>
    /\ stdout = <<>>
    /\ stderr = <<>>
    /\ result = None

\* expr.accept(self): the expression is evaluated and its Result kept.
accept_expression ==
    /\ pc = "expr"
    /\ \E r \in {ExprAccept(statements[1][2], envs, environment)} :
          /\ envs' = r.envs
          /\ result' = IF r.k = "Ok" THEN <<"Ok", r.val>> ELSE <<"Err", r.err[2]>>
    /\ pc' = "expr_done"
    /\ UNCHANGED <<input, scanner, parser, statements, environment, stack,
                   stdout, stderr>>

SpecExpr == InitExpr /\ [][accept_expression]_vars

\* v is the Number num/den.
IsNumber(v, num, den) == v[1] = "Number" /\ v[2] * den = num * v[3]

\* C13: the result of visit_binary on two literal operands is the one of
\* the operator table.  - * / > >= < <= give the number or the boolean of
\* the arithmetic on two Numbers, except that / by zero fails with
\* "Cannot divide by zero."; on any other pair they fail with
\* RuntimeError::Token on the operator.  + gives the sum of two Numbers and
\* the left-then-right concatenation of two Strings, and fails on any other
\* pair.  == and != never fail; values of different variants are unequal.
C13_OperatorTable ==
    (pc = "expr_done" /\ statements[1][2][1] = "Binary") =>
        LET e == statements[1][2]
            l == e[2][2]
            r == e[4][2]
            op == e[3]
            numbers == l[1] = "Number" /\ r[1] = "Number"
            fails == /\ result[1] = "Err" /\ result[2][1] = "Token"
                     /\ result[2][2] = op
            ok == result[1] = "Ok"
            boolean(b) == result = <<"Ok", LitBoolean(b)>>
        IN  CASE op.typ \in {"Minus", "Star", "Slash", "Greater", "GreaterEqual",
                             "Less", "LessEqual"} /\ ~numbers -> fails
              [] op.typ = "Minus" /\ numbers ->
                    ok /\ IsNumber(result[2], l[2] * r[3] - r[2] * l[3], l[3] * r[3])
              [] op.typ = "Star" /\ numbers ->
                    ok /\ IsNumber(result[2], l[2] * r[2], l[3] * r[3])
              [] op.typ = "Slash" /\ numbers ->
                    IF r[2] = 0
                    THEN fails /\ result[2][3] = "Cannot divide by zero."
                    ELSE ok /\ IsNumber(result[2], l[2] * r[3], l[3] * r[2])
              [] op.typ = "Greater" /\ numbers -> boolean(l[2] * r[3] > r[2] * l[3])
              [] op.typ = "GreaterEqual" /\ numbers -> boolean(l[2] * r[3] >= r[2] * l[3])
              [] op.typ = "Less" /\ numbers -> boolean(l[2] * r[3] < r[2] * l[3])
              [] op.typ = "LessEqual" /\ numbers -> boolean(l[2] * r[3] =< r[2] * l[3])
              [] op.typ = "Plus" ->
                    IF numbers
                    THEN ok /\ IsNumber(result[2], l[2] * r[3] + r[2] * l[3], l[3] * r[3])
                    ELSE IF l[1] = "String" /\ r[1] = "String"
                    THEN result = <<"Ok", LitString(l[2] \o r[2])>>
                    ELSE fails
              [] op.typ = "EqualEqual" -> boolean(l[1] = r[1] /\ l = r)
              [] op.typ = "BangEqual" -> boolean(~(l[1] = r[1] /\ l = r))

\* C13 witness: `"1" + 1` has failed on the `+` token: nothing is coerced.
C13_Witness ==
    /\ pc = "expr_done"
    /\ statements[1][2] = ExprBinary(ExprLiteral(LitString(<<"1">>)),
                                     Tok("Plus", <<"+">>), ExprLiteral(LitNumber(1, 1)))
    /\ result[1] = "Err" /\ result[2][2].typ = "Plus"

\* C14: for every literal x, `!x` evaluates to Boolean(~truthy(x)) and
\* `!!x` to Boolean(truthy(x)), neither failing, where truthy(x) is false
\* exactly for Nil and Boolean(false).
C14_DoubleBangIsTruthy ==
    (pc = "expr_done" /\ statements[1][2][1] = "Unary") =>
        LET e == statements[1][2]
            double == e[3][1] = "Unary"
            x == IF double THEN e[3][3][2] ELSE e[3][2]
            truthy == x \notin {LitNil, LitBoolean(FALSE)}
        IN  result = <<"Ok", LitBoolean(IF double THEN truthy ELSE ~truthy)>>

\* C14 witness: `!!0` has evaluated to true.
C14_Witness ==
    /\ pc = "expr_done"
    /\ statements[1][2] =
          ExprUnary(TokBang, ExprUnary(TokBang, ExprLiteral(LitNumber(0, 1))))
    /\ result = <<"Ok", LitBoolean(TRUE)>>

(***************************************************************************)
(* The scanner on every source text of at most MaxCommentLen characters    *)
(* over the characters of block comments, the newline and a digit.         *)
(***************************************************************************)
CommentAlphabet == {"/", "*", "\n", "1"}

InitComment ==
    /\ pc = "scan"
    /\ input = <<>>
    /\ \E n \in 0..MaxCommentLen : \E source \in [1..n -> CommentAlphabet] :
          scanner = ScannerNew(source)
    /\ parser = ParserNew(<<>>)
    /\ statements = <<>>
    /\ envs = InterpreterNew
    /\ environment = 1
    /\ stack = <<>>
    /\ stdout = <<>>
    /\ stderr = <<>>
    /\ result = None

SpecComment == InitComment /\ [][Scan]_vars

\* The positions at or after `from` where `*/` starts.
CommentCloses(source, from) ==
    { j \in from..(Len(source) - 2) : At(source, j) = "*" /\ At(source, j + 1) = "/" }

\* The least element of a non-empty set of numbers.
Least(S) == CHOOSE j \in S : \A k \in S : j =< k

\* C15: a scanning step that starts on `/*` adds no token.  When a `*/`
\* follows the `/*`, the step ends right after the first one, with line
\* increased by the number of newlines of the comment, and scanning goes
\* on; when none follows, scan_tokens fails with "Unterminated comment.".
C15_BlockComment ==
    [][(/\ pc = "scan"
        /\ scanner.current + 1 < Len(scanner.source)
        /\ At(scanner.source, scanner.current) = "/"
        /\ At(scanner.source, scanner.current + 1) = "*")
          => LET source == scanner.source
                 closes == CommentCloses(source, scanner.current + 2)
                 end == Least(closes) + 2
             IN  /\ scanner'.tokens = scanner.tokens
                 /\ IF closes # {}
                    THEN /\ pc' = "scan"
                         /\ scanner'.current = end
                         /\ scanner'.line = scanner.line
                               + NewlinesBefore(source, end)
                               - NewlinesBefore(source, scanner.current)
                    ELSE /\ pc' = "scan_err"
                         /\ result'[1] = "Err"
                         /\ result'[2][1] = "ScannerError"
                         /\ result'[2][3] = "Unterminated comment."]_vars

\* C15 witness: `/***/1` has been scanned into the number 1 and EOF.
C15_Witness ==
    /\ pc = "scanned"
    /\ scanner.source = <<"/", "*", "*", "*", "/", "1">>
    /\ Len(scanner.tokens) = 2
    /\ scanner.tokens[1].typ = "Number"
    /\ scanner.tokens[1].lexeme = <<"1">>

(***************************************************************************)
(* Properties of primary, synchronize and the cursor, on the token vectors *)
(* of SpecParse.                                                           *)
(***************************************************************************)
\* The token types a primary starts with.
PrimaryStarts ==
    {"LeftParen", "String", "Number", "True", "False", "Nil", "Identifier"}

\* C16 (as claimed): primary entered with the cursor on a token that does
\* not start a primary (on EOF only after some token has been consumed, as
\* parse enters no declaration on EOF) fails with
\* ParseError(that token, "expected expression").
C16_PrimaryErrorToken ==
    pc = "parse" =>
        \A c \in 0..(Len(parser.tokens) - 1) :
            LET p == [parser EXCEPT !.current = c]
                t == peek(p)
            IN  (t.typ \notin PrimaryStarts /\ (t.typ = "EOF" => c >= 1)) =>
                    LET r == primary(p)
                    IN  /\ r.k = "Err"
                        /\ r.err = Some(ParseError(t, "expected expression"))

\* Where synchronize may stop: on EOF, after a `;`, or before a keyword
\* that starts a statement.
SyncPoint(p) ==
    \/ is_at_end(p)
    \/ previous(p).typ = "Semicolon"
    \/ peek(p).typ \in SyncKeywords

\* C17: synchronize called with a cursor c >= 1 (it is called after `var`
\* was consumed) returns with the same tokens and a cursor that has only
\* moved forward and is still on a token, at a point where the cursor is on
\* EOF, or the token before it is `;`, or the token at it is one of class
\* fun var for if while print return; and it is the first such point after
\* the one token synchronize always discards.
C17_SynchronizeStops ==
    pc = "parse" =>
        \A c \in 1..(Len(parser.tokens) - 1) :
            LET p == [parser EXCEPT !.current = c]
                q == synchronize(p)
            IN  /\ ~q.panicked
                /\ q.tokens = p.tokens
                /\ c =< q.current /\ q.current < Len(q.tokens)
                /\ SyncPoint(q)
                /\ \A k \in (c + 1)..(q.current - 1) :
                      ~SyncPoint([p EXCEPT !.current = k])

\* C17 witness: in `var ; ...` the declaration has failed on `;` and
\* synchronize has stopped right after that `;`, before more tokens.
C17_Witness ==
    /\ pc = "parse"
    /\ statements = <<Placeholder>>
    /\ Len(parser.raised) = 1
    /\ ~is_at_end(parser)
    /\ parser.current = 2
    /\ previous(parser).typ = "Semicolon"
    /\ peek(parser).typ \notin SyncKeywords

\* C18: throughout parse of a vector that ends with its only EOF, the
\* cursor is on a token of the vector, so never past EOF, and no access,
\* previous() with current = 0 included, has left the vector.
C18_CursorInBounds ==
    /\ 0 =< parser.current /\ parser.current < Len(parser.tokens)
    /\ \A i \in 1..parser.current : parser.tokens[i].typ # "EOF"
    /\ ~parser.panicked
    /\ pc # "panic"

\* C18 witness: a parse in which a `var` declaration failed and synchronize
\* ran is over, the cursor on the EOF that ends the vector.
C18_Witness ==
    /\ pc = "parsed"
    /\ parser.raised # <<>>
    /\ Placeholder \in {statements[i] : i \in 1..Len(statements)}
    /\ parser.current = Len(parser.tokens) - 1
    /\ parser.current >= 3

\* C19 (as claimed): scanning and parsing always return.  Every turn of
\* the loop of scan_tokens moves the scanner's cursor forward and either
\* goes on or returns the error; every turn of the loop of parse moves the
\* parser's cursor forward and either goes on or returns the error.  The
\* cursors being bounded by the length of the input, both loops end.
C19_ScanAndParseReturn ==
    [][/\ (pc = "scan" /\ ~ScIsAtEnd(scanner)) =>
             /\ scanner'.current > scanner.current
             /\ pc' \in {"scan", "scan_err"}
       /\ (pc = "parse" /\ ~is_at_end(parser)) =>
             /\ parser'.current > parser.current
             /\ pc' \in {"parse", "parse_err"}]_vars

=============================================================================
